---- MODULE Spec2Model ----
(***************************************************************************)
(* gopdfsuit-client: the request-execution core.                           *)
(*                                                                         *)
(* One call of RetryClient.Do (the Retrying Executor) over BaseClient.Do   *)
(* (the Request Executor), with the caller's context, the caller's body    *)
(* reader, the retry timer and the network as the environment.             *)
(*                                                                         *)
(* Further on: BaseClient.Do step by step with its headers; the Client of   *)
(* http_client.go under PDFClient (Do, Post, Get, Send, SendAndSave); the  *)
(* two retry implementations side by side; two concurrent calls on one     *)
(* client.                                                                 *)
(*                                                                         *)
(* Durations are counted in ticks of a signed DurationBits-bit integer     *)
(* (time.Duration is a signed 64-bit count of nanoseconds; the width is    *)
(* scaled down, the wrap-around arithmetic is kept).                       *)
(***************************************************************************)
EXTENDS Integers, Sequences, FiniteSets, TLC

(***************************************************************************)
(* Bounds of the model.                                                    *)
(***************************************************************************)
\* largest configured maxRetries (WithMaxRetries accepts any int; -1 is the
\* smallest value drawn)
MaxRetriesBound == 2
\* largest configured base retry delay, in ticks
MaxRetryDelay == 1
\* width of the modelled time.Duration
DurationBits == 15

(***************************************************************************)
(* Values.                                                                 *)
(***************************************************************************)
\* time.Millisecond, in ticks
Millisecond == 2

\* a reader: data, read position, and whether Read fails; present = FALSE is
\* the nil io.Reader
NoBody == [present |-> FALSE, data |-> <<>>, pos |-> 0, fails |-> FALSE]

\* a []byte: nil or a byte sequence
NilBytes == [isNil |-> TRUE, data |-> <<>>]

\* utils.NewBytesReader: a fresh reader positioned at the start of b
NewBytesReader(b) == [present |-> TRUE, data |-> b, pos |-> 0, fails |-> FALSE]

\* the bodies a caller passes to Do: none, an empty reader, a 2-byte reader,
\* a reader the caller has already read one byte of, and a reader whose Read
\* fails
CallerBodies ==
    { NoBody,
      NewBytesReader(<<>>),
      NewBytesReader(<<1, 2>>),
      [present |-> TRUE, data |-> <<1, 2, 3>>, pos |-> 1, fails |-> FALSE],
      [present |-> TRUE, data |-> <<1, 2>>, pos |-> 0, fails |-> TRUE] }

\* the bytes a reader still has to give
Remaining(r) == SubSeq(r.data, r.pos + 1, Len(r.data))

\* errors: kind and, for *domain.HTTPError, the status code
NoErr == [kind |-> "none", status |-> 0]
Err(k) == [kind |-> k, status |-> 0]
\* domain.NewHTTPError(statusCode, ...)
NewHTTPError(statusCode) == [kind |-> "http", status |-> statusCode]

\* a ([]byte, error) pair
Return(b, e) == [bytes |-> b, err |-> e]
NoResult == Return(NilBytes, Err("pending"))

(***************************************************************************)
(* The network, as seen by http.Client.Do and io.ReadAll(resp.Body).       *)
(***************************************************************************)
StatusCodes == {200, 299, 400, 401, 404, 499, 500, 503}
ResponseBodies == {<<>>, <<9>>}

TransportFailure == [net |-> "error", status |-> 0, body |-> <<>>, readOk |-> TRUE]

NetOutcomes ==
    {TransportFailure}
    \cup [net : {"response"}, status : {200}, body : ResponseBodies, readOk : {TRUE}]
    \cup [net : {"response"}, status : StatusCodes \ {200}, body : {<<9>>}, readOk : {TRUE}]
    \cup [net : {"response"}, status : {200, 404}, body : {<<9>>}, readOk : {FALSE}]

(***************************************************************************)
(* internal/utils/retry.go                                                 *)
(***************************************************************************)
RECURSIVE Pow2(_)
Pow2(n) == IF n <= 0 THEN 1 ELSE 2 * Pow2(n - 1)

\* a value as a signed DurationBits-bit integer (Go's wrap-around)
Wrap(x) ==
    LET m == x % Pow2(DurationBits)
    IN  IF m >= Pow2(DurationBits - 1) THEN m - Pow2(DurationBits) ELSE m

\* time.Duration(1 << uint(attempt)): a shift count of the width or more
\* gives 0, and uint of a negative attempt is such a count
ShiftLeftOne(attempt) ==
    IF attempt < 0 \/ attempt >= DurationBits THEN 0 ELSE Wrap(Pow2(attempt))

CalculateBackoff_offByOne(attempt, baseDelay) ==
    Wrap(baseDelay * ShiftLeftOne(attempt - 1))

CalculateBackoff(attempt, baseDelay) ==
    Wrap(baseDelay * ShiftLeftOne(attempt))

(***************************************************************************)
(* domain.RetryPolicy: the custom policies a client is configured with.    *)
(* "nil" is no custom policy; "always" answers retry to every question and *)
(* waits 0 ms; "any" is a policy free to answer either way on each         *)
(* question, waiting attempt ms.                                           *)
(***************************************************************************)
RetryPolicies == {"nil", "always", "any"}

\* the answers RetryPolicy.ShouldRetry(attempt, err) can give
PolicyShouldRetry(policy, attempt, err) ==
    IF policy = "always" THEN {TRUE} ELSE BOOLEAN

\* RetryPolicy.WaitDuration(attempt), an int64 of milliseconds
WaitDuration(policy, attempt) ==
    IF policy = "always" THEN 0 ELSE attempt

(***************************************************************************)
(* State.                                                                  *)
(***************************************************************************)
VARIABLES
    maxRetries,    \* RetryClient.maxRetries
    retryDelay,    \* RetryClient.retryDelay, in ticks
    retryPolicy,   \* RetryClient.retryPolicy
    reqOk,         \* method and url make a request http.NewRequestWithContext accepts
    body,          \* the caller's reader, argument of Do
    ctxDone,       \* ctx.Done() is closed
    pc,            \* position of the call in RetryClient.Do
    attempt,       \* the loop variable
    bodyBytes,     \* the buffered body
    lastErr,       \* the last observed error
    currentBody,   \* the reader handed to the attempt in flight
    timerFired,    \* the channel of time.After has its value
    woken,         \* which case woke the parked select
    result,        \* what Do returned
    \* history of the call, read by the properties only
    bodyReads,     \* number of io.ReadAll calls on the caller's reader
    captured,      \* the bytes the caller's reader held when Do was entered
    sent,          \* the reader handed to next.Do, one per attempt, as handed
    outcomes,      \* what next.Do returned, one per finished attempt
    network,       \* what the network did, one per finished attempt
    delays,        \* the duration of each delay started
    trace,         \* "D" for a delay started, "A" for an attempt dispatched
    policyCalls,   \* the questions put to the custom policy, with its answers
    cancelPhase    \* where the call was when ctx was cancelled

config == <<maxRetries, retryDelay, retryPolicy, reqOk>>
callState == <<pc, attempt, bodyBytes, lastErr, currentBody, result>>
timerState == <<timerFired, woken>>
history == <<bodyReads, captured, sent, outcomes, network, delays, trace, policyCalls>>
retryVars == <<config, body, ctxDone, callState, timerState, history, cancelPhase>>

\* one call of BaseClient.Do, step by step
VARIABLES
    bPc,           \* position of the call in BaseClient.Do
    bMethod,       \* argument method
    bUrlOk,        \* http.NewRequestWithContext accepts method and url
    bHeaders,      \* BaseClient.headers, the configured headers
    bReqHeader,    \* req.Header of the request built
    bNet,          \* what c.client.Do and io.ReadAll(resp.Body) gave
    bSends,        \* number of calls of c.client.Do
    bResult        \* what BaseClient.Do returned

baseVars == <<bPc, bMethod, bUrlOk, bHeaders, bReqHeader, bNet, bSends, bResult>>

\* the header map with no entry
NoHeaders == [k \in {} |-> ""]

\* no call of BaseClient.Do is being followed
BaseIdle ==
    /\ bPc = "idle"
    /\ bMethod = "GET"
    /\ bUrlOk = TRUE
    /\ bHeaders = NoHeaders
    /\ bReqHeader = NoHeaders
    /\ bNet = TransportFailure
    /\ bSends = 0
    /\ bResult = NoResult

\* Client (http_client.go) under PDFClient: one call at a time
VARIABLES
    clientConfig,  \* Client.config
    endpoint,      \* PDFClient.endpoint
    fs,            \* the file at the output path
    call,          \* the operation called and its arguments
    mPc,           \* position of the call
    mCtxDone,      \* ctx.Done() is closed
    mAttempt,      \* the loop variable of Do and doWithRetry
    mLastErr,      \* lastErr
    mReq,          \* req, the request of Post and Get, rebuilt per attempt by Do
    mReader,       \* the body reader of the request
    mLog,          \* the requests given to c.httpClient.Do, in order
    mNet,          \* what c.httpClient.Do and io.ReadAll gave, in order
    mResult        \* what the call returned

callVars == <<call, mPc, mCtxDone, mAttempt, mLastErr, mReq, mReader, mLog, mNet, mResult>>
clientVars == <<clientConfig, endpoint, fs, callVars>>

\* no file at the path
NoFile == [exists |-> FALSE, data |-> <<>>]
\* no request made
NoReq == [method |-> "", url |-> <<>>, header |-> NoHeaders, getBody |-> FALSE]
\* no operation called
NoCall == [op |-> "none", method |-> "", url |-> <<>>, doc |-> "nil", body |-> NoBody]

\* the locals of a call at its entry
CallEntry ==
    /\ mCtxDone = FALSE
    /\ mAttempt = 0
    /\ mLastErr = NoErr
    /\ mReq = NoReq
    /\ mReader = NoBody
    /\ mLog = <<>>
    /\ mNet = <<>>
    /\ mResult = NoResult

\* no Client is being followed
ClientIdle ==
    /\ clientConfig = [BaseURL |-> <<>>, MaxRetries |-> 0, RetryDelay |-> 0,
                       RetryPolicy |-> "nil", Headers |-> NoHeaders]
    /\ endpoint = <<>>
    /\ fs = NoFile
    /\ call = NoCall
    /\ mPc = "idle"
    /\ CallEntry

\* two concurrent calls on one client: the call that is running has its
\* locals in the variables above, the call that is not has them in other
VARIABLES
    impl,          \* which client the two calls are on: "chain" or "mono"
    other          \* the locals of the call that is not running

pairVars == <<impl, other>>

\* no second call
PairIdle ==
    /\ impl = "none"
    /\ other = <<>>

\* one call of Read of a document reader (part_006)
VARIABLES
    rKind,         \* "file" for JSONFileReader, "bytes" for JSONBytesReader
    rFile,         \* what is at JSONFileReader.filePath
    rData,         \* JSONBytesReader.data
    rCtxDone,      \* ctx.Done() is closed when Read is called
    rPc,           \* position of the call
    rResult        \* the (*domain.Document, error) returned

readerVars == <<rKind, rFile, rData, rCtxDone, rPc, rResult>>

\* the (nil, nil) pair, before Read has returned
NoRead == [doc |-> "nil", err |-> "pending"]

\* no reader is being followed
ReaderIdle ==
    /\ rKind = "none"
    /\ rFile = [status |-> "absent", data |-> <<>>]
    /\ rData = NilBytes
    /\ rCtxDone = FALSE
    /\ rPc = "idle"
    /\ rResult = NoRead

\* one documentBuilder (document_builder.go) and the goroutines calling it
VARIABLES
    builderMu,     \* documentBuilder.mu: the goroutine holding it, or Unlocked
    builderDoc,    \* *documentBuilder.doc
    builderPc,     \* position of each goroutine in its call
    builderLocal,  \* the slice each AddTable has read for its append
    built,         \* the document the last Build copied
    builtAfter     \* the last Build was called after every AddTable had returned

builderVars == <<builderMu, builderDoc, builderPc, builderLocal, built, builtAfter>>

\* the value of mu when no goroutine holds it
Unlocked == -1

\* no builder is being followed
BuilderIdle ==
    /\ builderMu = Unlocked
    /\ builderDoc = [Tables |-> <<>>]
    /\ builderPc = <<>>
    /\ builderLocal = <<>>
    /\ built = [Tables |-> <<>>]
    /\ builtAfter = FALSE

\* the state outside the HTTP clients
aside == <<readerVars, builderVars>>
AsideIdle == ReaderIdle /\ BuilderIdle

\* the state outside the call of RetryClient.Do
outside == <<baseVars, clientVars, pairVars, aside>>
OutsideIdle == BaseIdle /\ ClientIdle /\ PairIdle /\ AsideIdle

\* the state outside the call of BaseClient.Do
notBase == <<retryVars, clientVars, pairVars, aside>>
\* the state outside the Client
notClient == <<retryVars, baseVars, pairVars, aside>>
\* the HTTP clients
clients == <<retryVars, baseVars, clientVars, pairVars>>

vars == <<retryVars, outside>>

Init ==
    /\ maxRetries \in -1 .. MaxRetriesBound
    /\ retryDelay \in {0, MaxRetryDelay}
    /\ retryPolicy \in RetryPolicies
    /\ reqOk \in BOOLEAN
    /\ body \in CallerBodies
    /\ ctxDone = FALSE
    /\ pc = "start"
    /\ attempt = 0
    /\ bodyBytes = NilBytes
    /\ lastErr = NoErr
    /\ currentBody = NoBody
    /\ timerFired = FALSE
    /\ woken = "none"
    /\ result = NoResult
    /\ bodyReads = 0
    /\ captured = Remaining(body)
    /\ sent = <<>>
    /\ outcomes = <<>>
    /\ network = <<>>
    /\ delays = <<>>
    /\ trace = <<>>
    /\ policyCalls = <<>>
    /\ cancelPhase = "none"
    /\ OutsideIdle

(***************************************************************************)
(* BaseClient.Do: one request, classified.  None of the configured headers *)
(* changes the classification.                                             *)
(***************************************************************************)
BaseClientDo_dropBody(requestOk, net) ==
    IF ~requestOk THEN Return(NilBytes, Err("createRequest"))
    ELSE IF net.net = "error" THEN Return(NilBytes, Err("transport"))
    ELSE IF ~net.readOk THEN Return(NilBytes, Err("readBody"))
    ELSE IF net.status >= 200 /\ net.status < 300
         THEN Return(NilBytes, NoErr)
    ELSE IF net.status = 401 THEN Return(NilBytes, Err("unauthorized"))
    ELSE Return(NilBytes, NewHTTPError(net.status))

BaseClientDo_from201(requestOk, net) ==
    IF ~requestOk THEN Return(NilBytes, Err("createRequest"))
    ELSE IF net.net = "error" THEN Return(NilBytes, Err("transport"))
    ELSE IF ~net.readOk THEN Return(NilBytes, Err("readBody"))
    ELSE IF net.status > 200 /\ net.status < 300
         THEN Return([isNil |-> FALSE, data |-> net.body], NoErr)
    ELSE IF net.status = 401 THEN Return(NilBytes, Err("unauthorized"))
    ELSE Return(NilBytes, NewHTTPError(net.status))

BaseClientDo_transportAsStatus(requestOk, net) ==
    IF ~requestOk THEN Return(NilBytes, Err("createRequest"))
    ELSE IF net.net = "error" THEN Return(NilBytes, NewHTTPError(0))
    ELSE IF ~net.readOk THEN Return(NilBytes, Err("readBody"))
    ELSE IF net.status >= 200 /\ net.status < 300
         THEN Return([isNil |-> FALSE, data |-> net.body], NoErr)
    ELSE IF net.status = 401 THEN Return(NilBytes, Err("unauthorized"))
    ELSE Return(NilBytes, NewHTTPError(net.status))

BaseClientDo(requestOk, net) ==
    \* http.NewRequestWithContext fails
    IF ~requestOk THEN Return(NilBytes, Err("createRequest"))
    \* c.client.Do fails: wraps domain.ErrHTTPRequest
    ELSE IF net.net = "error" THEN Return(NilBytes, Err("transport"))
    \* io.ReadAll(resp.Body) fails
    ELSE IF ~net.readOk THEN Return(NilBytes, Err("readBody"))
    ELSE IF net.status >= 200 /\ net.status < 300
         THEN Return([isNil |-> FALSE, data |-> net.body], NoErr)
    ELSE IF net.status = 401 THEN Return(NilBytes, Err("unauthorized"))
    ELSE Return(NilBytes, NewHTTPError(net.status))

\* what the network can do with one request
NetFor(requestOk) == IF requestOk THEN NetOutcomes ELSE {TransportFailure}

(***************************************************************************)
(* RetryClient                                                             *)
(***************************************************************************)
shouldRetry_noTransport(att, err, policyAnswer) ==
    IF att >= maxRetries THEN FALSE
    ELSE IF retryPolicy # "nil" THEN policyAnswer
    ELSE IF err.kind = "http" THEN err.status >= 500
    ELSE FALSE

shouldRetry_from400(att, err, policyAnswer) ==
    IF att >= maxRetries THEN FALSE
    ELSE IF retryPolicy # "nil" THEN policyAnswer
    ELSE IF err.kind = "http" THEN err.status >= 400
    ELSE TRUE

shouldRetry_unauthorizedEnds(att, err, policyAnswer) ==
    IF att >= maxRetries THEN FALSE
    ELSE IF retryPolicy # "nil" THEN policyAnswer
    ELSE IF err.kind = "http" THEN err.status >= 500
    ELSE err.kind # "unauthorized"

\* RetryClient.shouldRetry; policyAnswer is what the custom policy answers
\* when it is asked
shouldRetry(att, err, policyAnswer) ==
    IF att >= maxRetries THEN FALSE
    ELSE IF retryPolicy # "nil" THEN policyAnswer
    ELSE IF err.kind = "http" THEN err.status >= 500
    ELSE TRUE

getRetryDelay_backoffOnly(att) == CalculateBackoff(att, retryDelay)

\* RetryClient.getRetryDelay
getRetryDelay(att) ==
    IF retryPolicy # "nil"
    THEN Wrap(WaitDuration(retryPolicy, att) * Millisecond)
    ELSE CalculateBackoff(att, retryDelay)

NeedsDelay_always(att) == TRUE

\* the guard of the delay: if attempt > 0
NeedsDelay(att) == att > 0

NextAttempt_stuck(att) == att

\* the loop's post statement: attempt++
NextAttempt(att) == att + 1

AttemptBody_passThrough(buffered, callerBody) == callerBody

\* the reader of one attempt: a new reader over the buffered bytes, or nil
AttemptBody(buffered, callerBody) ==
    IF ~buffered.isNil THEN NewBytesReader(buffered.data) ELSE NoBody

SelectChannels_none == {}

SelectChannels_sleepOnly == {"timer"}

\* the cases of the select of the delay: <-ctx.Done() and <-time.After(d)
SelectChannels == {"ctx", "timer"}

\* the cases of the select that can proceed
ReadyCases ==
    {c \in SelectChannels : (c = "ctx" /\ ctxDone) \/ (c = "timer" /\ timerFired)}

Finish_exceeded(r) ==
    /\ pc' = "returned"
    /\ result' = IF r.err.kind \in {"none", "ctx", "bodyRead"}
                 THEN r
                 ELSE [bytes |-> NilBytes, err |-> Err("maxRetriesExceeded")]

\* return from Do
Finish(r) ==
    /\ pc' = "returned"
    /\ result' = r

\* the select proceeds with case c
Proceed(c) ==
    IF c = "ctx"
    THEN /\ Finish(Return(NilBytes, Err("ctx")))
    ELSE /\ pc' = "send"
         /\ UNCHANGED result

\* lines 50-57: buffer the body, if there is one
BufferBody ==
    /\ pc = "start"
    /\ IF ~body.present
       THEN /\ pc' = "loop"
            /\ UNCHANGED <<body, bodyBytes, bodyReads, result>>
       ELSE /\ bodyReads' = bodyReads + 1
            /\ IF body.fails
               THEN /\ Finish(Return(NilBytes, Err("bodyRead")))
                    /\ UNCHANGED <<body, bodyBytes>>
               ELSE /\ bodyBytes' = [isNil |-> FALSE, data |-> Remaining(body)]
                    /\ body' = [body EXCEPT !.pos = Len(body.data)]
                    /\ pc' = "loop"
                    /\ UNCHANGED result
    /\ UNCHANGED outside
    /\ UNCHANGED <<config, ctxDone, attempt, lastErr, currentBody, timerState,
                   captured, sent, outcomes, network, delays, trace, policyCalls,
                   cancelPhase>>

\* lines 59-69 and 90: the loop test, and the start of the delay
LoopTest ==
    /\ pc = "loop"
    /\ IF attempt <= maxRetries
       THEN IF NeedsDelay(attempt)
            THEN /\ pc' = "select"
                 /\ timerFired' = FALSE
                 /\ woken' = "none"
                 /\ delays' = Append(delays, getRetryDelay(attempt))
                 /\ trace' = Append(trace, "D")
                 /\ UNCHANGED result
            ELSE /\ pc' = "send"
                 /\ UNCHANGED <<timerState, delays, trace, result>>
       ELSE /\ Finish(Return(NilBytes, lastErr))
            /\ UNCHANGED <<timerState, delays, trace>>
    /\ UNCHANGED outside
    /\ UNCHANGED <<config, body, ctxDone, attempt, bodyBytes, lastErr, currentBody,
                   bodyReads, captured, sent, outcomes, network, policyCalls,
                   cancelPhase>>

\* lines 64-68: the select finds a case ready, or parks the call
SelectPoll ==
    /\ pc = "select"
    /\ IF ReadyCases = {}
       THEN /\ pc' = "parked"
            /\ UNCHANGED result
       ELSE \E c \in ReadyCases : Proceed(c)
    /\ UNCHANGED outside
    /\ UNCHANGED <<config, body, ctxDone, attempt, bodyBytes, lastErr, currentBody,
                   timerState, history, cancelPhase>>

\* lines 64-68: the parked call resumes with the case that woke it
SelectWake ==
    /\ pc = "parked"
    /\ woken # "none"
    /\ Proceed(woken)
    /\ UNCHANGED outside
    /\ UNCHANGED <<config, body, ctxDone, attempt, bodyBytes, lastErr, currentBody,
                   timerState, history, cancelPhase>>

\* lines 71-78: the attempt's reader is made and next.Do is called
Send ==
    /\ pc = "send"
    /\ currentBody' = AttemptBody(bodyBytes, body)
    /\ sent' = Append(sent, currentBody')
    /\ trace' = Append(trace, "A")
    /\ pc' = "inflight"
    /\ UNCHANGED outside
    /\ UNCHANGED <<config, body, ctxDone, attempt, bodyBytes, lastErr, timerState,
                   result, bodyReads, captured, outcomes, network, delays,
                   policyCalls, cancelPhase>>

\* lines 78-88: next.Do returns, and Do returns or goes round the loop
Respond ==
    /\ pc = "inflight"
    /\ \E net \in NetFor(reqOk) :
         LET r == BaseClientDo(reqOk, net)
             asked == r.err.kind # "none" /\ attempt < maxRetries
                      /\ retryPolicy # "nil"
         IN  /\ outcomes' = Append(outcomes, r)
             /\ network' = Append(network, net)
             \* a request that was sent has had its body read
             /\ currentBody' = IF reqOk /\ currentBody.present
                               THEN [currentBody EXCEPT !.pos = Len(currentBody.data)]
                               ELSE currentBody
             /\ IF r.err.kind = "none"
                THEN /\ Finish(r)
                     /\ UNCHANGED <<attempt, lastErr, policyCalls>>
                ELSE /\ lastErr' = r.err
                     /\ \E answer \in PolicyShouldRetry(retryPolicy, attempt, r.err) :
                          /\ policyCalls' =
                               IF asked
                               THEN Append(policyCalls,
                                           [attempt |-> attempt, err |-> r.err,
                                            answer |-> answer])
                               ELSE policyCalls
                          /\ IF shouldRetry(attempt, r.err, answer)
                             THEN /\ attempt' = NextAttempt(attempt)
                                  /\ pc' = "loop"
                                  /\ UNCHANGED result
                             ELSE /\ Finish(Return(NilBytes, r.err))
                                  /\ UNCHANGED attempt
    /\ UNCHANGED outside
    /\ UNCHANGED <<config, body, ctxDone, bodyBytes, timerState, bodyReads,
                   captured, sent, delays, trace, cancelPhase>>

(***************************************************************************)
(* The environment.                                                        *)
(***************************************************************************)
\* the caller cancels ctx, or its deadline passes; a select parked on
\* ctx.Done() that nothing has woken yet is woken by it
Cancel ==
    /\ pc # "returned"
    /\ ~ctxDone
    /\ ctxDone' = TRUE
    /\ cancelPhase' = IF pc = "parked" /\ woken = "none" THEN "delay" ELSE pc
    /\ woken' = IF pc = "parked" /\ woken = "none" /\ "ctx" \in SelectChannels
                THEN "ctx" ELSE woken
    /\ UNCHANGED outside
    /\ UNCHANGED <<config, body, callState, timerFired, history>>

\* the timer of time.After expires; a parked select that nothing has woken
\* yet is woken by it
TimerFire ==
    /\ pc \in {"select", "parked"}
    /\ ~timerFired
    /\ timerFired' = TRUE
    /\ woken' = IF pc = "parked" /\ woken = "none" /\ "timer" \in SelectChannels
                THEN "timer" ELSE woken
    /\ UNCHANGED outside
    /\ UNCHANGED <<config, body, ctxDone, callState, history, cancelPhase>>

Next ==
    \/ BufferBody
    \/ LoopTest
    \/ SelectPoll
    \/ SelectWake
    \/ Send
    \/ Respond
    \/ Cancel
    \/ TimerFire

Spec == Init /\ [][Next]_vars

(***************************************************************************)
(* Properties.                                                             *)
(***************************************************************************)
Returned == pc = "returned"

\* the number of attempts dispatched to the wrapped executor
Attempts == Len(sent)

IsTransport(r) == r.err.kind = "transport"
Is5xx(r) == r.err.kind = "http" /\ r.err.status >= 500
\* the failures the default rule is documented to retry
IsRetryable(r) == IsTransport(r) \/ Is5xx(r)
Is4xxNot401(r) == r.err.kind = "http" /\ r.err.status >= 400 /\ r.err.status <= 499

\* C1: for maxRetries = N >= 0, whatever the policy and the outcomes, one
\* call of RetryClient.Do dispatches at most N+1 attempts.
C1_AtMostNPlusOneAttempts ==
    maxRetries >= 0 => Attempts <= maxRetries + 1

C1_Witness ==
    /\ Returned
    /\ retryPolicy = "always"
    /\ maxRetries = MaxRetriesBound
    /\ Attempts = maxRetries + 1
    /\ \A i \in 1 .. Len(outcomes) : outcomes[i].err.kind = "http"

\* C2 as stated: under the default policy with maxRetries = N >= 0, a call
\* whose every attempt fails with a transport error, or whose every attempt
\* receives a 5xx status, has dispatched exactly N+1 attempts when it returns.
C2_ExactlyNPlusOne_AsStated ==
    ( /\ Returned
      /\ retryPolicy = "nil"
      /\ maxRetries >= 0
      /\ Len(outcomes) >= 1
      /\ \/ \A i \in 1 .. Len(outcomes) : IsTransport(outcomes[i])
         \/ \A i \in 1 .. Len(outcomes) : Is5xx(outcomes[i]) )
    => Attempts = maxRetries + 1

\* C2 as amended: the same, for a call that does not return the context's
\* error from an inter-attempt delay.
C2_ExactlyNPlusOne_UnlessCancelled ==
    ( /\ Returned
      /\ retryPolicy = "nil"
      /\ maxRetries >= 0
      /\ Len(outcomes) >= 1
      /\ result.err.kind # "ctx"
      /\ \/ \A i \in 1 .. Len(outcomes) : IsTransport(outcomes[i])
         \/ \A i \in 1 .. Len(outcomes) : Is5xx(outcomes[i]) )
    => Attempts = maxRetries + 1

C2_Witness ==
    /\ Returned
    /\ retryPolicy = "nil"
    /\ maxRetries = MaxRetriesBound
    /\ Attempts = maxRetries + 1
    /\ result.err.kind = "transport"
    /\ \A i \in 1 .. Len(outcomes) : IsTransport(outcomes[i])

\* C3: when all maxRetries+1 attempts have been made and every one failed
\* with a retryable error (transport error or 5xx), the call returns
\* MaxRetriesExceeded (domain.ErrMaxRetriesExceeded).
C3_MaxRetriesExceeded ==
    ( /\ Returned
      /\ maxRetries >= 0
      /\ Len(outcomes) = maxRetries + 1
      /\ \A i \in 1 .. Len(outcomes) : IsRetryable(outcomes[i]) )
    => result.err.kind = "maxRetriesExceeded"

\* C4: a 401 at any attempt ends the call at once: Do returns Unauthorized,
\* no further attempt is dispatched and no further delay is started,
\* whatever the budget and the policy.
C4_UnauthorizedEndsCall ==
    \A i \in 1 .. Len(outcomes) :
        outcomes[i].err.kind = "unauthorized"
        => /\ Returned
           /\ result.err.kind = "unauthorized"
           /\ Attempts = i
           /\ Len(delays) <= i - 1

\* C5: a call whose attempts 0..k-1 fail with retryable errors and whose
\* attempt k succeeds returns the bytes of attempt k's response, with no
\* attempt and no delay after it.  (outcomes[k] is attempt k-1.)
C5_SuccessEndsCall ==
    \A k \in 1 .. Len(outcomes) :
        ( /\ outcomes[k].err.kind = "none"
          /\ \A j \in 1 .. k - 1 : IsRetryable(outcomes[j]) )
        => /\ Returned
           /\ result = Return([isNil |-> FALSE, data |-> network[k].body], NoErr)
           /\ Attempts = k
           /\ Len(delays) = k - 1
           /\ k <= maxRetries + 1

C5_Witness ==
    /\ Returned
    /\ Len(outcomes) = 3
    /\ IsTransport(outcomes[1])
    /\ Is5xx(outcomes[2])
    /\ outcomes[3].err.kind = "none"
    /\ network[3].body = <<9>>
    /\ result.bytes.data = <<9>>

\* C6: under the default policy a 404, or any status in 400..499 other than
\* 401, is not retried: the call returns that HTTP status error, with no
\* attempt and no delay after it; a 404 at attempt 0 gives one attempt.
C6_4xxNotRetried ==
    retryPolicy = "nil"
    => \A i \in 1 .. Len(outcomes) :
           Is4xxNot401(outcomes[i])
           => /\ Returned
              /\ result = Return(NilBytes, NewHTTPError(network[i].status))
              /\ Attempts = i
              /\ Len(delays) <= i - 1

C6_Witness ==
    /\ Returned
    /\ retryPolicy = "nil"
    /\ maxRetries = MaxRetriesBound
    /\ Attempts = 1
    /\ result = Return(NilBytes, NewHTTPError(404))

C8_CancelDuringDelay ==
    [][cancelPhase' = "delay"
       => /\ Len(sent') = Len(sent)
          /\ (pc' = "returned" => result'.err.kind = "ctx")]_vars

\* cancelled in the delay before the last budgeted attempt, the timer fired
\* after that, and the call returned Cancelled
C8_Witness ==
    /\ Returned
    /\ cancelPhase = "delay"
    /\ timerFired
    /\ result.err.kind = "ctx"
    /\ Attempts >= 1
    /\ Attempts <= maxRetries

\* the trace of a call: attempt 0 comes first, and every later attempt
\* comes right after one delay, which comes right after an attempt
DelayBeforeEachRetryOnly ==
    \A i \in 1 .. Len(trace) :
        /\ trace[i] = "A" => (i = 1 \/ trace[i - 1] = "D")
        /\ trace[i] = "D" => (i > 1 /\ trace[i - 1] = "A")

\* C9 as stated: attempt 0 has no delay before it, each dispatched attempt
\* 1..maxRetries has exactly one; with maxRetries = 0 a call makes exactly
\* one attempt and takes no delay.
C9_DelayOnlyBeforeRetries_AsStated ==
    /\ DelayBeforeEachRetryOnly
    /\ (maxRetries = 0 /\ Returned) => (Attempts = 1 /\ delays = <<>>)

\* C9 as amended: with maxRetries = 0 a call makes at most one attempt and
\* takes no delay, and exactly one attempt unless reading its body failed.
C9_DelayOnlyBeforeRetries ==
    /\ DelayBeforeEachRetryOnly
    /\ maxRetries = 0 => (Attempts <= 1 /\ delays = <<>>)
    /\ (maxRetries = 0 /\ Returned /\ result.err.kind # "bodyRead") => Attempts = 1

C9_Witness ==
    /\ Returned
    /\ maxRetries = 0
    /\ retryPolicy = "always"
    /\ Attempts = 1
    /\ IsTransport(outcomes[1])
    /\ trace = <<"A">>

\* C10: with no custom policy the delay before attempt k (k >= 1) is
\* retryDelay * 2^k.  (delays[k] is the delay before attempt k.)
C10_ExponentialDelay ==
    retryPolicy = "nil"
    => \A k \in 1 .. Len(delays) : delays[k] = retryDelay * Pow2(k)

C10_Witness ==
    /\ retryPolicy = "nil"
    /\ retryDelay = 1
    /\ Attempts = 3
    /\ trace = <<"A", "D", "A", "D", "A">>
    /\ delays = <<2, 4>>

(***************************************************************************)
(* BaseClient.Do, step by step: the request is built, sent once, its       *)
(* response read and classified.                                           *)
(***************************************************************************)
\* no call of RetryClient.Do is being followed
RetryIdle ==
    /\ maxRetries = 0
    /\ retryDelay = 0
    /\ retryPolicy = "nil"
    /\ reqOk = TRUE
    /\ body = NoBody
    /\ ctxDone = FALSE
    /\ pc = "idle"
    /\ attempt = 0
    /\ bodyBytes = NilBytes
    /\ lastErr = NoErr
    /\ currentBody = NoBody
    /\ timerFired = FALSE
    /\ woken = "none"
    /\ result = NoResult
    /\ bodyReads = 0
    /\ captured = <<>>
    /\ sent = <<>>
    /\ outcomes = <<>>
    /\ network = <<>>
    /\ delays = <<>>
    /\ trace = <<>>
    /\ policyCalls = <<>>
    /\ cancelPhase = "none"

\* textproto.CanonicalMIMEHeaderKey, which http.Header.Set applies to the key
CanonicalKey(k) == IF k = "content-type" THEN "Content-Type" ELSE k

\* http.Header.Set(k, v)
HeaderSet(h, k, v) ==
    [x \in DOMAIN h \cup {CanonicalKey(k)} |->
        IF x = CanonicalKey(k) THEN v ELSE h[x]]

\* the header maps a BaseClient is configured with
ConfiguredHeaders ==
    { NoHeaders,
      [k \in {"X-Api-Key"} |-> "secret"],
      [k \in {"Content-Type"} |-> "text/plain"],
      [k \in {"content-type", "X-Api-Key"} |->
          IF k = "content-type" THEN "text/csv" ELSE "secret"],
      [k \in {"Content-Type", "content-type"} |->
          IF k = "Content-Type" THEN "text/plain" ELSE "text/csv"] }

\* for k, v := range c.headers { req.Header.Set(k, v) }: the iteration order of
\* a map is not fixed, so of two keys with the same canonical form either may
\* be written last
RangeSet(h) ==
    LET keys == {CanonicalKey(k) : k \in DOMAIN h}
    IN  {f \in [keys -> {h[k] : k \in DOMAIN h}] :
            \A x \in keys : \E k \in DOMAIN h : CanonicalKey(k) = x /\ f[x] = h[k]}

\* if method == http.MethodPost { req.Header.Set("Content-Type", "application/json") }
ContentTypeOf(method, h) ==
    IF method = "POST" THEN HeaderSet(h, "Content-Type", "application/json") ELSE h

\* the statuses a response can carry: those of StatusCodes and the nearest
\* neighbours of the 2xx range
BaseStatusCodes == StatusCodes \cup {101, 300}

BaseNetOutcomes ==
    {TransportFailure}
    \cup [net : {"response"}, status : BaseStatusCodes, body : ResponseBodies,
          readOk : BOOLEAN]

BaseFinish(r) ==
    /\ bPc' = "returned"
    /\ bResult' = r

\* lines 28-44: the request is made and its headers are set
BaseBuild ==
    /\ bPc = "start"
    /\ IF ~bUrlOk
       THEN /\ BaseFinish(BaseClientDo(bUrlOk, bNet))
            /\ UNCHANGED bReqHeader
       ELSE /\ \E h \in RangeSet(bHeaders) :
                 bReqHeader' = ContentTypeOf(bMethod, h)
            /\ bPc' = "built"
            /\ UNCHANGED bResult
    /\ UNCHANGED <<bMethod, bUrlOk, bHeaders, bNet, bSends>>
    /\ UNCHANGED notBase

BaseSend_retrying ==
    /\ bPc = "built"
    /\ bSends' = bSends + 1
    /\ \E net \in BaseNetOutcomes :
         /\ bNet' = net
         /\ IF net.net = "error"
            THEN UNCHANGED <<bPc, bResult>>
            ELSE /\ bPc' = "received"
                 /\ UNCHANGED bResult
    /\ UNCHANGED <<bMethod, bUrlOk, bHeaders, bReqHeader>>
    /\ UNCHANGED notBase

\* lines 46-49: c.client.Do(req)
BaseSend ==
    /\ bPc = "built"
    /\ bSends' = bSends + 1
    /\ \E net \in BaseNetOutcomes :
         /\ bNet' = net
         /\ IF net.net = "error"
            THEN BaseFinish(BaseClientDo(bUrlOk, net))
            ELSE /\ bPc' = "received"
                 /\ UNCHANGED bResult
    /\ UNCHANGED <<bMethod, bUrlOk, bHeaders, bReqHeader>>
    /\ UNCHANGED notBase

\* lines 50-65: the response body is read and the response is classified
BaseRead ==
    /\ bPc = "received"
    /\ BaseFinish(BaseClientDo(bUrlOk, bNet))
    /\ UNCHANGED <<bMethod, bUrlOk, bHeaders, bReqHeader, bNet, bSends>>
    /\ UNCHANGED notBase

BaseInit ==
    /\ RetryIdle
    /\ ClientIdle
    /\ PairIdle
    /\ AsideIdle
    /\ bPc = "start"
    /\ bMethod \in {"GET", "POST"}
    /\ bUrlOk \in BOOLEAN
    /\ bHeaders \in ConfiguredHeaders
    /\ bReqHeader = NoHeaders
    /\ bNet = TransportFailure
    /\ bSends = 0
    /\ bResult = NoResult

BaseNext ==
    \/ BaseBuild
    \/ BaseSend
    \/ BaseRead

SpecBase == BaseInit /\ [][BaseNext]_vars

BaseReturned == bPc = "returned"

\* C11: one call of BaseClient.Do performs at most one network send, and
\* when it has returned it has sent once unless the request could not be made.
C11_ExecutorNeverRetries ==
    /\ bSends <= 1
    /\ BaseReturned => bSends = (IF bUrlOk THEN 1 ELSE 0)
    /\ (BaseReturned /\ bNet = TransportFailure /\ bUrlOk)
           => bResult.err.kind = "transport"

C11_Witness ==
    /\ BaseReturned
    /\ bSends = 1
    /\ bResult.err.kind = "transport"

\* C12: a response received and read is classified by its status alone:
\* 200..299 gives the response bytes, 401 gives Unauthorized, every other
\* status gives an HTTPError with that status.
C12_ClassifiedByStatus ==
    (BaseReturned /\ bSends = 1 /\ bNet.net = "response" /\ bNet.readOk)
    => IF bNet.status \in 200 .. 299
       THEN bResult = Return([isNil |-> FALSE, data |-> bNet.body], NoErr)
       ELSE IF bNet.status = 401
       THEN bResult = Return(NilBytes, Err("unauthorized"))
       ELSE bResult = Return(NilBytes, [kind |-> "http", status |-> bNet.status])

C12_Witness ==
    /\ BaseReturned
    /\ bNet.net = "response"
    /\ bNet.readOk
    /\ bNet.status = 299
    /\ bResult = Return([isNil |-> FALSE, data |-> <<9>>], NoErr)

\* the values the configured headers give for a canonical key
ConfiguredValues(key) ==
    {bHeaders[k] : k \in {x \in DOMAIN bHeaders : CanonicalKey(x) = key}}

\* C13: the Content-Type of a POST is application/json unless the configured
\* headers specify a Content-Type, and then it is the configured value.
C13_CallerContentTypeWins ==
    (bPc \in {"built", "received", "returned"} /\ bUrlOk /\ bMethod = "POST")
    => /\ "Content-Type" \in DOMAIN bReqHeader
       /\ IF ConfiguredValues("Content-Type") = {}
          THEN bReqHeader["Content-Type"] = "application/json"
          ELSE bReqHeader["Content-Type"] \in ConfiguredValues("Content-Type")

(***************************************************************************)
(* Client (http_client.go) and PDFClient (part_004): Do, Post, Get, Send   *)
(* and SendAndSave, called one after another on one client.                *)
(***************************************************************************)
\* the documents and bodies handed to Send and Post: nil, a document, and a
\* document with a NaN in a float64 field
Docs == {"nil", "doc", "nan"}

\* json.Marshal: NaN is not representable; nil gives null (byte 0 here)
MarshalFails(d) == d = "nan"
Marshal(d) == IF d = "nil" THEN <<0>> ELSE <<1, 2>>

\* URLs are sequences of pieces; a piece "\n" is a control character, which
\* http.NewRequestWithContext rejects
BaseURLs == {<<"http://host">>}
Urls == {<<"/a">>, <<"\n">>}
UrlParses(u) == \A i \in 1 .. Len(u) : u[i] # "\n"

\* gopdfsuit.NewClient's default endpoint
DefaultEndpoint == <<"/api/v1/generate/template-pdf">>

\* the files found at the output path: none, or an older file
OldFiles == {NoFile, [exists |-> TRUE, data |-> <<7, 7, 7>>]}

\* the header maps a Client is configured with
ClientHeaders == {NoHeaders, [k \in {"content-type"} |-> "text/plain"]}

\* the operations a caller invokes
Calls ==
    [op : {"Send", "SendAndSave"}, method : {""}, url : {<<>>},
     doc : Docs, body : {NoBody}]
    \cup [op : {"Post"}, method : {""}, url : Urls, doc : Docs, body : {NoBody}]
    \cup [op : {"Get"}, method : {""}, url : Urls, doc : {"nil"}, body : {NoBody}]
    \cup [op : {"Do"}, method : {"GET", "POST"}, url : {<<"http://host", "/a">>, <<"\n">>},
          doc : {"nil"}, body : {NoBody, NewBytesReader(<<1, 2>>)}]

\* the answers of the network to an attempt of the Client: no response, a
\* response of each class, and a 200 whose body cannot be read
ClientAnswers ==
    {TransportFailure}
    \cup [net : {"response"}, status : {200, 401, 404, 503}, body : {<<9>>}, readOk : {TRUE}]
    \cup [net : {"response"}, status : {200}, body : {<<9>>}, readOk : {FALSE}]

\* Client.shouldRetry
ClientShouldRetry(att, policyAnswer) ==
    IF att >= clientConfig.MaxRetries THEN FALSE
    ELSE IF clientConfig.RetryPolicy # "nil" THEN policyAnswer
    ELSE TRUE

\* Client.getRetryDelay
ClientGetRetryDelay(att) ==
    IF clientConfig.RetryPolicy # "nil"
    THEN Wrap(WaitDuration(clientConfig.RetryPolicy, att) * Millisecond)
    ELSE Wrap(clientConfig.RetryDelay * ShiftLeftOne(att))

\* a header map h laid over a header map base, key by key with Header.Set
Overlay(base, h) ==
    [x \in DOMAIN base \cup DOMAIN h |-> IF x \in DOMAIN h THEN h[x] ELSE base[x]]

\* return from the Client; SendAndSave goes on with the result of Send
ClientFinish(r) ==
    /\ mResult' = r
    /\ mPc' = IF call.op = "SendAndSave" THEN "sent" ELSE "returned"

\* a caller invokes an operation of the client with a fresh context
ClientCall ==
    /\ mPc \in {"idle", "returned"}
    /\ \E c \in Calls :
         /\ call' = c
         /\ mPc' = CASE c.op \in {"Send", "SendAndSave"} -> "send"
                     [] c.op = "Post" -> "post"
                     [] c.op = "Get" -> "get"
                     [] c.op = "Do" -> "loop"
         /\ mReader' = c.body
    /\ mCtxDone' = FALSE
    /\ mAttempt' = 0
    /\ mLastErr' = NoErr
    /\ mReq' = NoReq
    /\ mLog' = <<>>
    /\ mNet' = <<>>
    /\ mResult' = NoResult
    /\ UNCHANGED <<clientConfig, endpoint, fs>>
    /\ UNCHANGED notClient

PDFSend_noNilCheck ==
    /\ mPc = "send"
    /\ call' = [call EXCEPT !.url = endpoint]
    /\ mPc' = "post"
    /\ UNCHANGED mResult
    /\ UNCHANGED <<clientConfig, endpoint, fs, mCtxDone, mAttempt, mLastErr, mReq,
                   mReader, mLog, mNet>>
    /\ UNCHANGED notClient

\* PDFClient.Send, part_004:80-86, up to the call of Post
PDFSend ==
    /\ mPc = "send"
    /\ IF call.doc = "nil"
       THEN /\ ClientFinish(Return(NilBytes, Err("documentNil")))
            /\ UNCHANGED call
       ELSE /\ call' = [call EXCEPT !.url = endpoint]
            /\ mPc' = "post"
            /\ UNCHANGED mResult
    /\ UNCHANGED <<clientConfig, endpoint, fs, mCtxDone, mAttempt, mLastErr, mReq,
                   mReader, mLog, mNet>>
    /\ UNCHANGED notClient

FullURL_bare(url) == url

\* fullURL := c.config.BaseURL + url
FullURL(url) == clientConfig.BaseURL \o url

ClientPost_keepsHeader ==
    /\ mPc = "post"
    /\ IF MarshalFails(call.doc)
       THEN /\ ClientFinish(Return(NilBytes, Err("marshal")))
            /\ UNCHANGED <<mReq, mReader, clientConfig>>
       ELSE IF ~UrlParses(FullURL(call.url))
       THEN /\ ClientFinish(Return(NilBytes, Err("createRequest")))
            /\ UNCHANGED <<mReq, mReader, clientConfig>>
       ELSE /\ \E h \in RangeSet(clientConfig.Headers) :
                 /\ mReq' = [method |-> "POST", url |-> FullURL(call.url),
                             header |-> Overlay([k \in {"Content-Type"} |-> "application/json"], h),
                             getBody |-> TRUE]
                 /\ clientConfig' =
                        [clientConfig EXCEPT !.Headers =
                            Overlay([k \in {"Content-Type"} |-> "application/json"], h)]
            /\ mReader' = NewBytesReader(Marshal(call.doc))
            /\ mPc' = "loop"
            /\ UNCHANGED mResult
    /\ UNCHANGED <<endpoint, fs, call, mCtxDone, mAttempt, mLastErr, mLog, mNet>>
    /\ UNCHANGED notClient

\* Client.Post, http_client.go:179-197, up to the call of doWithRetry
ClientPost ==
    /\ mPc = "post"
    /\ IF MarshalFails(call.doc)
       THEN /\ ClientFinish(Return(NilBytes, Err("marshal")))
            /\ UNCHANGED <<mReq, mReader>>
       ELSE IF ~UrlParses(FullURL(call.url))
       THEN /\ ClientFinish(Return(NilBytes, Err("createRequest")))
            /\ UNCHANGED <<mReq, mReader>>
       ELSE /\ \E h \in RangeSet(clientConfig.Headers) :
                 mReq' = [method |-> "POST", url |-> FullURL(call.url),
                          header |-> Overlay([k \in {"Content-Type"} |-> "application/json"], h),
                          getBody |-> TRUE]
            /\ mReader' = NewBytesReader(Marshal(call.doc))
            /\ mPc' = "loop"
            /\ UNCHANGED mResult
    /\ UNCHANGED <<clientConfig, endpoint, fs, call, mCtxDone, mAttempt, mLastErr,
                   mLog, mNet>>
    /\ UNCHANGED notClient

\* Client.Get, http_client.go:200-212, up to the call of doWithRetry
ClientGet ==
    /\ mPc = "get"
    /\ IF ~UrlParses(FullURL(call.url))
       THEN /\ ClientFinish(Return(NilBytes, Err("createRequest")))
            /\ UNCHANGED <<mReq, mReader>>
       ELSE /\ \E h \in RangeSet(clientConfig.Headers) :
                 mReq' = [method |-> "GET", url |-> FullURL(call.url),
                          header |-> h, getBody |-> FALSE]
            /\ mReader' = NoBody
            /\ mPc' = "loop"
            /\ UNCHANGED mResult
    /\ UNCHANGED <<clientConfig, endpoint, fs, call, mCtxDone, mAttempt, mLastErr,
                   mLog, mNet>>
    /\ UNCHANGED notClient

\* for attempt := 0; attempt <= c.config.MaxRetries; attempt++ of Do and
\* doWithRetry, and the return after the loop
ClientLoopTest ==
    /\ mPc = "loop"
    /\ IF mAttempt > clientConfig.MaxRetries
       THEN ClientFinish(Return(NilBytes, Err("maxRetriesExceeded")))
       ELSE /\ mPc' = IF mAttempt > 0 THEN "wait" ELSE "attempt"
            /\ UNCHANGED mResult
    /\ UNCHANGED <<clientConfig, endpoint, fs, call, mCtxDone, mAttempt, mLastErr,
                   mReq, mReader, mLog, mNet>>
    /\ UNCHANGED notClient

\* the select of the delay: a closed ctx.Done() ends the call; the timer lets
\* it go on, and of two ready cases either is taken.  doWithRetry then
\* rewinds the body with req.GetBody
ClientWait ==
    /\ mPc = "wait"
    /\ \/ /\ mCtxDone
          /\ ClientFinish(Return(NilBytes, Err("context")))
          /\ UNCHANGED mReader
       \/ /\ ~mCtxDone \/ ClientGetRetryDelay(mAttempt) <= 0
          /\ mPc' = "attempt"
          /\ mReader' = IF call.op # "Do" /\ mReq.getBody
                        THEN [mReader EXCEPT !.pos = 0]
                        ELSE mReader
          /\ UNCHANGED mResult
    /\ UNCHANGED <<clientConfig, endpoint, fs, call, mCtxDone, mAttempt, mLastErr,
                   mReq, mLog, mNet>>
    /\ UNCHANGED notClient

\* what one attempt of Do and doWithRetry makes of the network's answer:
\* go on with the next attempt, or return
ClientClassify(net, canRetry) ==
    IF net.net = "error"
    THEN IF canRetry
         THEN [continue |-> TRUE, lastErr |-> Err("transport"), ret |-> NoResult]
         ELSE [continue |-> FALSE, lastErr |-> Err("transport"),
               ret |-> Return(NilBytes, Err("transport"))]
    ELSE IF ~net.readOk
    THEN [continue |-> TRUE, lastErr |-> Err("readBody"), ret |-> NoResult]
    ELSE IF net.status >= 200 /\ net.status < 300
    THEN [continue |-> FALSE, lastErr |-> mLastErr,
          ret |-> Return([isNil |-> FALSE, data |-> net.body], NoErr)]
    ELSE IF net.status = 401
    THEN [continue |-> FALSE, lastErr |-> NewHTTPError(net.status),
          ret |-> Return(NilBytes, Err("unauthorized"))]
    ELSE IF net.status >= 500 /\ canRetry
    THEN [continue |-> TRUE, lastErr |-> NewHTTPError(net.status), ret |-> NoResult]
    ELSE [continue |-> FALSE, lastErr |-> NewHTTPError(net.status),
          ret |-> Return(NilBytes, NewHTTPError(net.status))]

\* the request of this attempt: Do makes it anew from method, url and the
\* configured headers; doWithRetry has the one of Post or Get
RequestOf(h) ==
    IF call.op = "Do"
    THEN [method |-> call.method, url |-> call.url, header |-> h, getBody |-> FALSE]
    ELSE mReq

\* one attempt: the request goes to c.httpClient.Do, the network answers one
\* of the outcomes in answers, the answer is classified
ClientAttempt(answers) ==
    /\ mPc = "attempt"
    /\ IF call.op = "Do" /\ ~UrlParses(call.url)
       THEN /\ ClientFinish(Return(NilBytes, Err("createRequest")))
            /\ UNCHANGED <<mAttempt, mLastErr, mReq, mReader, mLog, mNet>>
       ELSE \E h \in RangeSet(clientConfig.Headers), net \in answers,
               policyAnswer \in PolicyShouldRetry(clientConfig.RetryPolicy, mAttempt, NoErr) :
              LET c == ClientClassify(net, ClientShouldRetry(mAttempt, policyAnswer))
              IN  /\ mReq' = RequestOf(h)
                  /\ mLog' = Append(mLog, [method |-> RequestOf(h).method,
                                           url |-> RequestOf(h).url,
                                           header |-> RequestOf(h).header,
                                           body |-> Remaining(mReader)])
                  /\ mReader' = IF mReader.present
                                THEN [mReader EXCEPT !.pos = Len(mReader.data)]
                                ELSE mReader
                  /\ mNet' = Append(mNet, net)
                  /\ mLastErr' = c.lastErr
                  /\ IF c.continue
                     THEN /\ mAttempt' = mAttempt + 1
                          /\ mPc' = "loop"
                          /\ UNCHANGED mResult
                     ELSE /\ ClientFinish(c.ret)
                          /\ UNCHANGED mAttempt
    /\ UNCHANGED <<clientConfig, endpoint, fs, call, mCtxDone>>
    /\ UNCHANGED notClient

\* what os.WriteFile(path, data, 0644) can leave at the path when it fails:
\* the file as it was (it could not be opened), or a truncated or partly
\* written file
FailedWrites(old, data) ==
    {old} \cup {[exists |-> TRUE, data |-> SubSeq(data, 1, n)] : n \in 0 .. Len(data) - 1}

PDFSave_writeFirst ==
    /\ mPc = "sent"
    /\ fs' = [exists |-> TRUE, data |-> mResult.bytes.data]
    /\ mResult' = Return(NilBytes, mResult.err)
    /\ mPc' = "returned"
    /\ UNCHANGED <<clientConfig, endpoint, call, mCtxDone, mAttempt, mLastErr, mReq,
                   mReader, mLog, mNet>>
    /\ UNCHANGED notClient

\* PDFClient.SendAndSave, part_004:89-96, after Send returned, and saveToFile
PDFSave ==
    /\ mPc = "sent"
    /\ IF mResult.err # NoErr
       THEN /\ mResult' = Return(NilBytes, mResult.err)
            /\ UNCHANGED fs
       ELSE \/ /\ fs' = [exists |-> TRUE, data |-> mResult.bytes.data]
               /\ mResult' = Return(NilBytes, NoErr)
            \/ /\ fs' \in FailedWrites(fs, mResult.bytes.data)
               /\ mResult' = Return(NilBytes, Err("filesystem"))
    /\ mPc' = "returned"
    /\ UNCHANGED <<clientConfig, endpoint, call, mCtxDone, mAttempt, mLastErr, mReq,
                   mReader, mLog, mNet>>
    /\ UNCHANGED notClient

\* the caller cancels the context of the call in progress
ClientCancel ==
    /\ mPc \notin {"idle", "returned"}
    /\ ~mCtxDone
    /\ mCtxDone' = TRUE
    /\ UNCHANGED <<clientConfig, endpoint, fs, call, mPc, mAttempt, mLastErr, mReq,
                   mReader, mLog, mNet, mResult>>
    /\ UNCHANGED notClient

\* client.New with options, NewPDFClient
ClientInit ==
    /\ RetryIdle
    /\ BaseIdle
    /\ AsideIdle
    /\ PairIdle
    /\ clientConfig \in [BaseURL : BaseURLs, MaxRetries : 0 .. MaxRetriesBound,
                         RetryDelay : {0, MaxRetryDelay},
                         RetryPolicy : {"nil", "any"}, Headers : ClientHeaders]
    /\ endpoint = DefaultEndpoint
    /\ fs \in OldFiles
    /\ call = NoCall
    /\ mPc = "idle"
    /\ CallEntry

ClientNext ==
    \/ ClientCall
    \/ PDFSend
    \/ ClientPost
    \/ ClientGet
    \/ ClientLoopTest
    \/ ClientWait
    \/ ClientAttempt(ClientAnswers)
    \/ PDFSave
    \/ ClientCancel

SpecClient == ClientInit /\ [][ClientNext]_vars

ClientReturned == mPc = "returned"

\* C14: Send with a nil document fails with DocumentNil; no request is
\* built and no attempt is made.
C14_NilDocument ==
    (call.op \in {"Send", "SendAndSave"} /\ call.doc = "nil")
    => /\ mPc \in {"send", "sent", "returned"}
       /\ mReq = NoReq
       /\ mLog = <<>>
       /\ mAttempt = 0
       /\ mPc # "send" => mResult = Return(NilBytes, Err("documentNil"))

C14_Witness ==
    /\ call.op = "Send"
    /\ call.doc = "nil"
    /\ ClientReturned
    /\ mResult = Return(NilBytes, Err("documentNil"))
    /\ mLog = <<>>

\* C15: SendAndSave writes the file only after Send has succeeded; when Send
\* fails it returns that failure and leaves the path as it was; a failed
\* write after a successful Send is returned as a filesystem error.
C15_SaveOnlyAfterSend ==
    [][ /\ fs' # fs => (call.op = "SendAndSave" /\ mPc = "sent" /\ mResult.err = NoErr)
        /\ (mPc = "sent" /\ mPc' = "returned")
           => IF mResult.err # NoErr
              THEN mResult'.err = mResult.err /\ fs' = fs
              ELSE \/ /\ mResult'.err = NoErr
                      /\ fs' = [exists |-> TRUE, data |-> mResult.bytes.data]
                   \/ mResult'.err = Err("filesystem")
      ]_vars

C15_Witness ==
    /\ call.op = "SendAndSave"
    /\ ClientReturned
    /\ mResult.err = NoErr
    /\ fs = [exists |-> TRUE, data |-> <<9>>]
    /\ Len(mLog) = 2

\* C16: Post with a body that cannot be marshalled fails with a serialization
\* failure before any attempt; otherwise every attempt of Post is a POST to
\* baseURL+url; every attempt of Get is a GET to baseURL+url without a body.
C16_PostAndGetTargets ==
    /\ (call.op = "Post" /\ MarshalFails(call.doc) /\ mPc # "post")
       => /\ ClientReturned
          /\ mResult = Return(NilBytes, Err("marshal"))
          /\ mLog = <<>>
    /\ (call.op = "Post" /\ ~MarshalFails(call.doc))
       => \A i \in DOMAIN mLog :
             /\ mLog[i].method = "POST"
             /\ mLog[i].url = clientConfig.BaseURL \o call.url
    /\ call.op = "Get"
       => /\ ~mReader.present
          /\ \A i \in DOMAIN mLog :
                /\ mLog[i].method = "GET"
                /\ mLog[i].url = clientConfig.BaseURL \o call.url
                /\ mLog[i].body = <<>>

C16_Witness ==
    /\ call.op = "Post"
    /\ call.doc = "doc"
    /\ call.url = <<"/a">>
    /\ ClientReturned
    /\ Len(mLog) = 2
    /\ mLog[2].url = <<"http://host", "/a">>
    /\ mLog[2].method = "POST"

ScriptAnswers ==
    IF Len(mNet) < Len(network) THEN {network[Len(mNet) + 1]} ELSE ClientAnswers

\* RetryClient's attempt is answered with one of the Client's answers
CompareRespond ==
    /\ Respond
    /\ network'[Len(network')] \in ClientAnswers

CompareLoopTest ==
    /\ pc = "returned"
    /\ ClientLoopTest

CompareWait ==
    /\ pc = "returned"
    /\ ClientWait

CompareAttempt ==
    /\ pc = "returned"
    /\ ClientAttempt(ScriptAnswers)

CompareInit ==
    /\ maxRetries \in 0 .. MaxRetriesBound
    /\ retryDelay \in {0, MaxRetryDelay}
    /\ retryPolicy = "nil"
    /\ reqOk = TRUE
    /\ body \in {NoBody, NewBytesReader(<<1, 2>>)}
    /\ ctxDone = FALSE
    /\ pc = "start"
    /\ attempt = 0
    /\ bodyBytes = NilBytes
    /\ lastErr = NoErr
    /\ currentBody = NoBody
    /\ timerFired = FALSE
    /\ woken = "none"
    /\ result = NoResult
    /\ bodyReads = 0
    /\ captured = Remaining(body)
    /\ sent = <<>>
    /\ outcomes = <<>>
    /\ network = <<>>
    /\ delays = <<>>
    /\ trace = <<>>
    /\ policyCalls = <<>>
    /\ cancelPhase = "none"
    /\ BaseIdle
    /\ AsideIdle
    /\ PairIdle
    /\ clientConfig = [BaseURL |-> <<>>, MaxRetries |-> maxRetries,
                       RetryDelay |-> retryDelay, RetryPolicy |-> "nil",
                       Headers |-> NoHeaders]
    /\ endpoint = DefaultEndpoint
    /\ fs = NoFile
    /\ call = [op |-> "Do", method |-> "POST", url |-> <<"http://host", "/a">>,
               doc |-> "nil", body |-> body]
    /\ mPc = "loop"
    /\ mCtxDone = FALSE
    /\ mAttempt = 0
    /\ mLastErr = NoErr
    /\ mReq = NoReq
    /\ mReader = body
    /\ mLog = <<>>
    /\ mNet = <<>>
    /\ mResult = NoResult

CompareNext ==
    \/ BufferBody
    \/ LoopTest
    \/ SelectPoll
    \/ SelectWake
    \/ Send
    \/ CompareRespond
    \/ TimerFire
    \/ CompareLoopTest
    \/ CompareWait
    \/ CompareAttempt

SpecCompare == CompareInit /\ [][CompareNext]_vars

\* the attempts of the two calls got the same answers, as far as both went
SameAnswers ==
    \A i \in 1 .. Len(mNet) : i <= Len(network) => mNet[i] = network[i]

\* the request bodies of the attempts of the two calls
ChainBodies == [i \in 1 .. Len(sent) |-> Remaining(sent[i])]
MonoBodies == [i \in 1 .. Len(mLog) |-> mLog[i].body]

\* the two calls differ in attempts, in the body of an attempt, or in outcome
Differ ==
    \/ Len(sent) # Len(mLog)
    \/ ChainBodies # MonoBodies
    \/ result # mResult

\* C17: the two retry implementations are not equivalent: on every answer
\* sequence that starts with a 401, with maxRetries >= 1, Client.Do returns
\* Unauthorized after one attempt while RetryClient.Do makes a second one.
C17_NotEquivalent ==
    /\ SameAnswers
    /\ (/\ Returned
        /\ ClientReturned
        /\ maxRetries >= 1
        /\ network[1].net = "response"
        /\ network[1].status = 401
        /\ network[1].readOk)
       => /\ Differ
          /\ Len(mLog) = 1
          /\ mResult = Return(NilBytes, Err("unauthorized"))
          /\ Len(sent) >= 2

C17_Witness ==
    /\ Returned
    /\ ClientReturned
    /\ maxRetries = 1
    /\ network[1].status = 401
    /\ Len(mLog) = 1
    /\ Len(sent) = 2
    /\ result.err = NoErr
    /\ mResult.err = Err("unauthorized")
    /\ Differ

(***************************************************************************)
(* Two concurrent calls on one client.  The locals of Do and doWithRetry   *)
(* are per call: a switch of the running call puts the locals of one call  *)
(* aside and takes up those of the other.  The client's fields are the     *)
(* same for both.  No custom policy; the contexts are not cancelled.       *)
(***************************************************************************)
\* the locals and arguments of the running call of RetryClient.Do
RetryLocals ==
    [body |-> body,
     ctxDone |-> ctxDone,
     pc |-> pc,
     attempt |-> attempt,
     bodyBytes |-> bodyBytes,
     lastErr |-> lastErr,
     currentBody |-> currentBody,
     result |-> result,
     timerFired |-> timerFired,
     woken |-> woken,
     bodyReads |-> bodyReads,
     captured |-> captured,
     sent |-> sent,
     outcomes |-> outcomes,
     network |-> network,
     delays |-> delays,
     trace |-> trace,
     policyCalls |-> policyCalls,
     cancelPhase |-> cancelPhase]

\* the locals and arguments of the running call of the Client
ClientLocals ==
    [call |-> call,
     mPc |-> mPc,
     mCtxDone |-> mCtxDone,
     mAttempt |-> mAttempt,
     mLastErr |-> mLastErr,
     mReq |-> mReq,
     mReader |-> mReader,
     mLog |-> mLog,
     mNet |-> mNet,
     mResult |-> mResult]

SwitchRetry_sharedAttempt ==
    /\ impl = "chain"
    /\ other.pc # "returned"
    /\ other' = RetryLocals
    /\ body' = other.body
    /\ ctxDone' = other.ctxDone
    /\ pc' = other.pc
    /\ bodyBytes' = other.bodyBytes
    /\ lastErr' = other.lastErr
    /\ currentBody' = other.currentBody
    /\ result' = other.result
    /\ timerFired' = other.timerFired
    /\ woken' = other.woken
    /\ bodyReads' = other.bodyReads
    /\ captured' = other.captured
    /\ sent' = other.sent
    /\ outcomes' = other.outcomes
    /\ network' = other.network
    /\ delays' = other.delays
    /\ trace' = other.trace
    /\ policyCalls' = other.policyCalls
    /\ cancelPhase' = other.cancelPhase
    /\ attempt' = attempt
    /\ UNCHANGED <<config, baseVars, clientVars, impl, aside>>

\* the scheduler runs the other call of RetryClient.Do
SwitchRetry ==
    /\ impl = "chain"
    /\ other.pc # "returned"
    /\ other' = RetryLocals
    /\ body' = other.body
    /\ ctxDone' = other.ctxDone
    /\ pc' = other.pc
    /\ attempt' = other.attempt
    /\ bodyBytes' = other.bodyBytes
    /\ lastErr' = other.lastErr
    /\ currentBody' = other.currentBody
    /\ result' = other.result
    /\ timerFired' = other.timerFired
    /\ woken' = other.woken
    /\ bodyReads' = other.bodyReads
    /\ captured' = other.captured
    /\ sent' = other.sent
    /\ outcomes' = other.outcomes
    /\ network' = other.network
    /\ delays' = other.delays
    /\ trace' = other.trace
    /\ policyCalls' = other.policyCalls
    /\ cancelPhase' = other.cancelPhase
    /\ UNCHANGED <<config, baseVars, clientVars, impl, aside>>

\* the scheduler runs the other call of the Client
SwitchClient ==
    /\ impl = "mono"
    /\ other.mPc # "returned"
    /\ other' = ClientLocals
    /\ call' = other.call
    /\ mPc' = other.mPc
    /\ mCtxDone' = other.mCtxDone
    /\ mAttempt' = other.mAttempt
    /\ mLastErr' = other.mLastErr
    /\ mReq' = other.mReq
    /\ mReader' = other.mReader
    /\ mLog' = other.mLog
    /\ mNet' = other.mNet
    /\ mResult' = other.mResult
    /\ UNCHANGED <<clientConfig, endpoint, fs, retryVars, baseVars, impl, aside>>

\* the answers of the network to the attempts of the two calls
PairAnswers ==
    {TransportFailure}
    \cup [net : {"response"}, status : {200, 404, 503}, body : {<<9>>}, readOk : {TRUE}]

PairRespond ==
    /\ Respond
    /\ network'[Len(network')] \in PairAnswers

\* a call of RetryClient.Do at its entry, with its body
RetryEntry(b) ==
    [body |-> b, ctxDone |-> FALSE, pc |-> "start", attempt |-> 0,
     bodyBytes |-> NilBytes, lastErr |-> NoErr, currentBody |-> NoBody,
     result |-> NoResult, timerFired |-> FALSE, woken |-> "none", bodyReads |-> 0,
     captured |-> Remaining(b), sent |-> <<>>, outcomes |-> <<>>, network |-> <<>>,
     delays |-> <<>>, trace |-> <<>>, policyCalls |-> <<>>, cancelPhase |-> "none"]

\* a call of Client.Do or Client.Post at its entry
ClientEntry(c) ==
    [call |-> c, mPc |-> IF c.op = "Do" THEN "loop" ELSE "post", mCtxDone |-> FALSE,
     mAttempt |-> 0, mLastErr |-> NoErr, mReq |-> NoReq, mReader |-> c.body,
     mLog |-> <<>>, mNet |-> <<>>, mResult |-> NoResult]

\* the calls made concurrently on the Client
PairCalls ==
    { [op |-> "Do", method |-> "POST", url |-> <<"http://host", "/a">>,
       doc |-> "nil", body |-> NewBytesReader(<<1, 2>>)],
      [op |-> "Post", method |-> "", url |-> <<"/a">>, doc |-> "doc", body |-> NoBody] }

\* two calls of RetryClient.Do on one RetryClient
PairInitChain ==
    /\ impl = "chain"
    /\ maxRetries \in 0 .. MaxRetriesBound
    /\ retryDelay = MaxRetryDelay
    /\ retryPolicy = "nil"
    /\ reqOk = TRUE
    /\ body \in {NoBody, NewBytesReader(<<1, 2>>)}
    /\ ctxDone = FALSE
    /\ pc = "start"
    /\ attempt = 0
    /\ bodyBytes = NilBytes
    /\ lastErr = NoErr
    /\ currentBody = NoBody
    /\ result = NoResult
    /\ timerFired = FALSE
    /\ woken = "none"
    /\ bodyReads = 0
    /\ captured = Remaining(body)
    /\ sent = <<>>
    /\ outcomes = <<>>
    /\ network = <<>>
    /\ delays = <<>>
    /\ trace = <<>>
    /\ policyCalls = <<>>
    /\ cancelPhase = "none"
    /\ other \in {RetryEntry(b) : b \in {NoBody, NewBytesReader(<<3>>)}}
    /\ BaseIdle
    /\ AsideIdle
    /\ ClientIdle

\* two calls of Do or Post on one Client
PairInitMono ==
    /\ impl = "mono"
    /\ clientConfig \in [BaseURL : {<<"http://host">>}, MaxRetries : 0 .. MaxRetriesBound,
                         RetryDelay : {MaxRetryDelay}, RetryPolicy : {"nil"},
                         Headers : {NoHeaders}]
    /\ endpoint = DefaultEndpoint
    /\ fs = NoFile
    /\ call \in PairCalls
    /\ mPc = IF call.op = "Do" THEN "loop" ELSE "post"
    /\ mReader = call.body
    /\ mCtxDone = FALSE
    /\ mAttempt = 0
    /\ mLastErr = NoErr
    /\ mReq = NoReq
    /\ mLog = <<>>
    /\ mNet = <<>>
    /\ mResult = NoResult
    /\ other \in {ClientEntry(c) : c \in PairCalls}
    /\ RetryIdle
    /\ BaseIdle
    /\ AsideIdle

PairInit == PairInitChain \/ PairInitMono

PairNext ==
    \/ BufferBody
    \/ LoopTest
    \/ SelectPoll
    \/ SelectWake
    \/ Send
    \/ PairRespond
    \/ TimerFire
    \/ SwitchRetry
    \/ ClientPost
    \/ ClientLoopTest
    \/ ClientWait
    \/ ClientAttempt(PairAnswers)
    \/ SwitchClient

SpecPair == PairInit /\ [][PairNext]_vars

\* a call that cannot have happened alone
Impossible == [attempts |-> -1, result |-> NoResult]

\* RetryClient.Do alone, no custom policy, no cancellation, from attempt att
\* on, given the answers nets from the i-th on: the attempts made in all and
\* the outcome
RECURSIVE ChainAlone(_, _, _)
ChainAlone(att, nets, i) ==
    IF i > Len(nets) THEN Impossible
    ELSE LET r == BaseClientDo(TRUE, nets[i])
         IN  IF r.err.kind = "none" THEN [attempts |-> i, result |-> r]
             ELSE IF shouldRetry(att, r.err, TRUE) THEN ChainAlone(att + 1, nets, i + 1)
             ELSE [attempts |-> i, result |-> Return(NilBytes, r.err)]

\* Client.Do or doWithRetry alone, likewise
RECURSIVE MonoAlone(_, _, _)
MonoAlone(att, nets, i) ==
    IF att > clientConfig.MaxRetries
    THEN [attempts |-> i - 1, result |-> Return(NilBytes, Err("maxRetriesExceeded"))]
    ELSE IF i > Len(nets) THEN Impossible
    ELSE LET c == ClientClassify(nets[i], ClientShouldRetry(att, TRUE))
         IN  IF c.continue THEN MonoAlone(att + 1, nets, i + 1)
             ELSE [attempts |-> i, result |-> c.ret]

\* a returned call of RetryClient.Do made the attempts and has the outcome of
\* the call alone with the same answers, and sent its own body each time
ChainAsAlone(l) ==
    l.pc = "returned"
    => /\ Len(l.sent) = ChainAlone(0, l.network, 1).attempts
       /\ l.result = ChainAlone(0, l.network, 1).result
       /\ \A i \in 1 .. Len(l.sent) : Remaining(l.sent[i]) = l.captured

MonoAsAlone(l) ==
    l.mPc = "returned"
    => /\ Len(l.mLog) = MonoAlone(0, l.mNet, 1).attempts
       /\ l.mResult = MonoAlone(0, l.mNet, 1).result

\* C19: of two concurrent calls on one client, each makes the attempts and
\* returns the outcome it has when it runs alone with the same answers.
C19_ConcurrentAsAlone ==
    /\ impl = "chain" => ChainAsAlone(RetryLocals) /\ ChainAsAlone(other)
    /\ impl = "mono" => MonoAsAlone(ClientLocals) /\ MonoAsAlone(other)

C19_Witness ==
    /\ impl = "chain"
    /\ maxRetries = 2
    /\ pc = "returned"
    /\ other.pc = "returned"
    /\ Len(sent) = 3
    /\ Len(other.sent) = 2
    /\ result.err = NoErr
    /\ other.result.err = NewHTTPError(404)
    /\ Remaining(sent[3]) # Remaining(other.sent[2])

\* C20: an attempt of RetryClient.Do that gets no response (a timeout among
\* the causes) fails as a transport error; without a custom policy and with
\* attempt < maxRetries the call does not return: it goes round the loop to
\* the next attempt.
C20_TimeoutIsTransportError ==
    [][ (/\ pc = "inflight"
         /\ reqOk
         /\ Len(network') = Len(network) + 1
         /\ network'[Len(network')] = TransportFailure)
        => /\ outcomes'[Len(outcomes')] = Return(NilBytes, Err("transport"))
           /\ lastErr' = Err("transport")
           /\ (retryPolicy = "nil" /\ attempt < maxRetries)
              => /\ pc' = "loop"
                 /\ attempt' = attempt + 1
                 /\ result' = NoResult
      ]_vars

C20_Witness ==
    /\ Returned
    /\ reqOk
    /\ retryPolicy = "nil"
    /\ maxRetries = 2
    /\ ~ctxDone
    /\ Len(network) = 3
    /\ network[1] = TransportFailure
    /\ network[2] = TransportFailure
    /\ outcomes[2].err = Err("transport")
    /\ result = Return([isNil |-> FALSE, data |-> <<9>>], NoErr)

(***************************************************************************)
(* One call on either client: RetryClient.Do over BaseClient.Do, or        *)
(* Client.Do / Client.Post, with every retry policy, every maxRetries from *)
(* -1 on, and a context the caller may cancel at any point.                *)
(***************************************************************************)
\* next.Do returns with one of the Client's answers
EitherRespond ==
    /\ Respond
    /\ network'[Len(network')] \in ClientAnswers

\* the caller cancels the context of the call of RetryClient.Do
EitherCancel ==
    /\ impl = "chain"
    /\ Cancel

\* a call of RetryClient.Do enters
EitherInitChain ==
    /\ impl = "chain"
    /\ other = <<>>
    /\ maxRetries \in -1 .. MaxRetriesBound
    /\ retryDelay \in {0, MaxRetryDelay}
    /\ retryPolicy \in RetryPolicies
    /\ reqOk = TRUE
    /\ body \in {NoBody, NewBytesReader(<<1, 2>>),
                 [present |-> TRUE, data |-> <<1, 2>>, pos |-> 0, fails |-> TRUE]}
    /\ ctxDone = FALSE
    /\ pc = "start"
    /\ attempt = 0
    /\ bodyBytes = NilBytes
    /\ lastErr = NoErr
    /\ currentBody = NoBody
    /\ timerFired = FALSE
    /\ woken = "none"
    /\ result = NoResult
    /\ bodyReads = 0
    /\ captured = Remaining(body)
    /\ sent = <<>>
    /\ outcomes = <<>>
    /\ network = <<>>
    /\ delays = <<>>
    /\ trace = <<>>
    /\ policyCalls = <<>>
    /\ cancelPhase = "none"
    /\ BaseIdle
    /\ AsideIdle
    /\ ClientIdle

\* a call of Client.Do or Client.Post enters
EitherInitMono ==
    /\ impl = "mono"
    /\ other = <<>>
    /\ clientConfig \in [BaseURL : BaseURLs, MaxRetries : -1 .. MaxRetriesBound,
                         RetryDelay : {0, MaxRetryDelay}, RetryPolicy : RetryPolicies,
                         Headers : {NoHeaders}]
    /\ endpoint = DefaultEndpoint
    /\ fs = NoFile
    /\ call \in PairCalls
    /\ mPc = IF call.op = "Do" THEN "loop" ELSE "post"
    /\ mReader = call.body
    /\ mCtxDone = FALSE
    /\ mAttempt = 0
    /\ mLastErr = NoErr
    /\ mReq = NoReq
    /\ mLog = <<>>
    /\ mNet = <<>>
    /\ mResult = NoResult
    /\ RetryIdle
    /\ BaseIdle
    /\ AsideIdle

EitherInit == EitherInitChain \/ EitherInitMono

EitherNext ==
    \/ BufferBody
    \/ LoopTest
    \/ SelectPoll
    \/ SelectWake
    \/ Send
    \/ EitherRespond
    \/ EitherCancel
    \/ TimerFire
    \/ ClientPost
    \/ ClientLoopTest
    \/ ClientWait
    \/ ClientAttempt(ClientAnswers)
    \/ ClientCancel

SpecEither == EitherInit /\ [][EitherNext]_vars

\* the failure an attempt of the Client ends with, by the network's answer
ClientFailureOf(net) ==
    IF net.net = "error" THEN Err("transport")
    ELSE IF ~net.readOk THEN Err("readBody")
    ELSE IF net.status = 401 THEN Err("unauthorized")
    ELSE NewHTTPError(net.status)

\* C21: a call that returns because the retry of a failed attempt was declined
\* returns the failure of that attempt as it is, same class and same status,
\* and takes no delay after it.
C21_DeclinedReturnsLastFailure ==
    /\ (/\ impl = "chain"
        /\ Returned
        /\ Len(outcomes) >= 1
        /\ outcomes[Len(outcomes)].err # NoErr
        /\ result.err.kind # "ctx")
       => /\ result = [bytes |-> NilBytes, err |-> outcomes[Len(outcomes)].err]
          /\ Len(outcomes) = Len(sent)
          /\ trace[Len(trace)] = "A"
          /\ Len(delays) = Len(sent) - 1
    /\ (/\ impl = "mono"
        /\ ClientReturned
        /\ Len(mNet) >= 1
        /\ mResult.err.kind \notin {"none", "context", "maxRetriesExceeded"})
       => /\ mResult = [bytes |-> NilBytes, err |-> ClientFailureOf(mNet[Len(mNet)])]
          /\ Len(mNet) = Len(mLog)
          /\ mAttempt = Len(mNet) - 1

C21_Witness ==
    /\ impl = "chain"
    /\ Returned
    /\ retryPolicy = "any"
    /\ maxRetries = 2
    /\ Len(sent) = 1
    /\ Len(policyCalls) = 1
    /\ ~policyCalls[1].answer
    /\ result = Return(NilBytes, NewHTTPError(503))
    /\ delays = <<>>

\* a failed attempt that is not Unauthorized, within the retry budget
ChainDecided(i) ==
    /\ outcomes[i].err.kind \notin {"none", "unauthorized"}
    /\ i - 1 < maxRetries

MonoDecided(i) ==
    /\ ClientFailureOf(mNet[i]).kind # "unauthorized"
    /\ ~(mNet[i].net = "response" /\ mNet[i].readOk
         /\ mNet[i].status >= 200 /\ mNet[i].status < 300)
    /\ i - 1 < clientConfig.MaxRetries

\* C22: with a custom retry policy, whether a failed attempt that is not
\* Unauthorized is retried is the policy's answer to ShouldRetry(attempt, err),
\* whatever the class of the error: the policy is asked about every such
\* attempt, a call returns after an attempt only on the answer no, and the
\* policy that always answers yes has every such attempt followed by another.
C22_PolicyDecides ==
    /\ (impl = "chain" /\ retryPolicy # "nil")
       => /\ \A i \in 1 .. Len(outcomes) :
                ChainDecided(i)
                => \E j \in 1 .. Len(policyCalls) :
                      /\ policyCalls[j].attempt = i - 1
                      /\ policyCalls[j].err = outcomes[i].err
                      /\ policyCalls[j].answer => (Len(sent) > i \/ ~Returned
                                                     \/ result.err.kind = "ctx")
                      /\ ~policyCalls[j].answer => (Returned /\ Len(sent) = i)
    /\ (impl = "mono" /\ clientConfig.RetryPolicy = "always" /\ ClientReturned
        /\ mResult.err.kind # "context")
       => \A i \in 1 .. Len(mNet) : MonoDecided(i) => Len(mLog) > i

\* C23: with a custom retry policy the delay before attempt k >= 1 is the
\* policy's WaitDuration(k) taken as milliseconds; without one it is the
\* exponential backoff of the base delay.
C23_PolicyWaitDuration ==
    /\ impl = "chain"
       => \A k \in 1 .. Len(delays) :
             delays[k] = IF retryPolicy # "nil"
                         THEN Wrap(WaitDuration(retryPolicy, k) * Millisecond)
                         ELSE Wrap(retryDelay * ShiftLeftOne(k))
    /\ (impl = "mono" /\ mPc = "wait")
       => ClientGetRetryDelay(mAttempt) =
             IF clientConfig.RetryPolicy # "nil"
             THEN Wrap(WaitDuration(clientConfig.RetryPolicy, mAttempt) * Millisecond)
             ELSE Wrap(clientConfig.RetryDelay * ShiftLeftOne(mAttempt))

C23_Witness ==
    /\ impl = "chain"
    /\ Returned
    /\ retryPolicy = "any"
    /\ retryDelay = 0
    /\ delays = <<1 * Millisecond, 2 * Millisecond>>
    /\ Len(sent) = 3

(***************************************************************************)
(* The document readers (part_006): JSONFileReader.Read and                *)
(* JSONBytesReader.Read.  Bytes are tokens: "{" and "}" are braces, "n" is *)
(* the literal null, "[" and "]" are brackets, "x" is a byte no JSON text  *)
(* starts with.                                                            *)
(***************************************************************************)
\* no HTTP client is being followed
ClientsIdle == RetryIdle /\ BaseIdle /\ ClientIdle /\ PairIdle

\* longest input given to a reader
MaxInputLen == 3

JSONBytes == {"{", "}", "n", "[", "]", "x"}

RECURSIVE SeqsUpTo(_, _)
\* the sequences over S of length at most n
SeqsUpTo(S, n) ==
    IF n = 0 THEN {<<>>}
    ELSE LET shorter == SeqsUpTo(S, n - 1)
         IN  shorter \cup {Append(q, x) : q \in {t \in shorter : Len(t) = n - 1}, x \in S}

\* the inputs: the texts of length up to MaxInputLen
Inputs == SeqsUpTo(JSONBytes, MaxInputLen)

\* json.Unmarshal(data, &doc) into a domain.Document: an object and null are
\* taken, an array is well-formed JSON that is no Document, anything else is
\* not JSON
UnmarshalOk(data) == data \in {<<"{", "}">>, <<"n">>}

\* the reader's results
ReadOk == [doc |-> "document", err |-> "none"]
ReadErr(e) == [doc |-> "nil", err |-> e]

JSONBytesRead_noEmptyCheck(data) ==
    IF UnmarshalOk(data.data) THEN ReadOk ELSE ReadErr("invalidJSON")

\* JSONBytesReader.Read after the check of ctx, lines 74-83
JSONBytesRead(data) ==
    IF Len(data.data) = 0 THEN ReadErr("emptyDocument")
    ELSE IF UnmarshalOk(data.data) THEN ReadOk
    ELSE ReadErr("invalidJSON")

\* JSONFileReader.Read after the check of ctx, lines 33-46
JSONFileRead(file) ==
    IF file.status = "absent" THEN ReadErr("fileNotFound")
    ELSE IF file.status = "unreadable" THEN ReadErr("readFile")
    ELSE IF UnmarshalOk(file.data) THEN ReadOk
    ELSE ReadErr("invalidJSON")

\* select { case <-ctx.Done(): return nil, ctx.Err(); default: }
CtxChecked(ctxIsDone, r) == IF ctxIsDone THEN ReadErr("context") ELSE r

\* JSONFileReader.Read
FileReaderRead ==
    /\ rPc = "call"
    /\ rKind = "file"
    /\ rResult' = CtxChecked(rCtxDone, JSONFileRead(rFile))
    /\ rPc' = "returned"
    /\ UNCHANGED <<rKind, rFile, rData, rCtxDone>>
    /\ UNCHANGED <<clients, builderVars>>

\* JSONBytesReader.Read
BytesReaderRead ==
    /\ rPc = "call"
    /\ rKind = "bytes"
    /\ rResult' = CtxChecked(rCtxDone, JSONBytesRead(rData))
    /\ rPc' = "returned"
    /\ UNCHANGED <<rKind, rFile, rData, rCtxDone>>
    /\ UNCHANGED <<clients, builderVars>>

\* NewJSONFileReader(path) or NewJSONBytesReader(data), and the call of Read
ReaderInit ==
    /\ rKind \in {"file", "bytes"}
    /\ IF rKind = "file"
       THEN /\ rFile \in [status : {"absent", "unreadable"}, data : {<<>>}]
                         \cup [status : {"file"}, data : Inputs]
            /\ rData = NilBytes
       ELSE /\ rFile = [status |-> "absent", data |-> <<>>]
            /\ rData \in {NilBytes} \cup [isNil : {FALSE}, data : Inputs]
    /\ rCtxDone \in BOOLEAN
    /\ rPc = "call"
    /\ rResult = NoRead
    /\ ClientsIdle
    /\ BuilderIdle

ReaderNext ==
    \/ FileReaderRead
    \/ BytesReaderRead

SpecReader == ReaderInit /\ [][ReaderNext]_vars

ReaderReturned == rPc = "returned"

\* the class of each failure
ReaderClassified ==
    /\ (rKind = "file" /\ rFile.status = "absent") => rResult.err = "fileNotFound"
    /\ (rKind = "bytes" /\ Len(rData.data) = 0) => rResult.err = "emptyDocument"
    /\ (rKind = "bytes" /\ Len(rData.data) > 0 /\ ~UnmarshalOk(rData.data))
       => rResult.err = "invalidJSON"
    /\ (rKind = "file" /\ rFile.status = "file" /\ Len(rFile.data) > 0
        /\ ~UnmarshalOk(rFile.data))
       => rResult.err = "invalidJSON"

\* C24 as stated: a missing file gives FileNotFound, zero-length bytes give
\* EmptyDocument, non-empty input that does not decode gives InvalidJSON, and
\* no document comes with a failure.
C24_ReadersClassify_AsStated ==
    ReaderReturned
    => /\ ReaderClassified
       /\ rResult.err # "none" => rResult.doc = "nil"

\* C24 as amended: the same for a Read whose context is not done when it is
\* called; a Read whose context is done returns the context's error and no
\* document, whatever the input.
C24_ReadersClassify ==
    ReaderReturned
    => /\ ~rCtxDone => ReaderClassified
       /\ rCtxDone => rResult = [doc |-> "nil", err |-> "context"]
       /\ rResult.err # "none" => rResult.doc = "nil"
       /\ (rResult.err = "none") = (rResult.doc # "nil")

C24_Witness ==
    /\ ReaderReturned
    /\ ~rCtxDone
    /\ rKind = "bytes"
    /\ rData = [isNil |-> FALSE, data |-> <<>>]
    /\ rResult = [doc |-> "nil", err |-> "emptyDocument"]


(***************************************************************************)
(* RetryClient.Do: what a return without error means.                      *)
(***************************************************************************)
\* C25: whenever RetryClient.Do returns without error, at least one attempt
\* was dispatched to the wrapped executor and the last attempt dispatched
\* succeeded, for every maxRetries, the negative ones included.
C25_SuccessMeansAttemptSucceeded ==
    (impl = "chain" /\ Returned /\ result.err = NoErr)
        => /\ Len(sent) >= 1
           /\ Len(outcomes) = Len(sent)
           /\ outcomes[Len(outcomes)].err = NoErr

(***************************************************************************)
(* BaseClient.Do: the classes of its failures.                             *)
(***************************************************************************)
\* C26: every failure BaseClient.Do returns is a transport error wrapping
\* domain.ErrHTTPRequest, Unauthorized, or an HTTPError with a status code,
\* the failures to build the request and to read the response body included.
C26_FailuresAreClassified ==
    (BaseReturned /\ bResult.err # NoErr)
        => \/ bResult.err = Err("transport")
           \/ bResult.err = Err("unauthorized")
           \/ bResult.err.kind = "http"

(***************************************************************************)
(* Where cancellation is observed.                                         *)
(***************************************************************************)
\* C27: cancellation is observed only at the delay between attempts: a call
\* that returns Cancelled has dispatched attempt 0, also when the context
\* was done as the call was entered, and it returns from a delay.
C27_CancelledAfterAttemptZero ==
    /\ (impl = "chain" /\ Returned /\ result.err = Err("ctx"))
          => /\ Len(sent) >= 1
             /\ trace[1] = "A"
             /\ trace[Len(trace)] = "D"
    /\ (impl = "mono" /\ ClientReturned /\ mResult.err = Err("context"))
          => Len(mLog) >= 1

\* a call entered with its context done has returned Cancelled, after
\* attempt 0
C27_Witness ==
    /\ impl = "chain"
    /\ cancelPhase = "start"
    /\ Returned
    /\ result.err = Err("ctx")
    /\ Len(sent) = 1

(***************************************************************************)
(* Termination of RetryClient.Do.  The call's own steps are taken when     *)
(* they can be (the goroutine is scheduled), every attempt of the wrapped  *)
(* executor returns and every timer of time.After expires; nothing makes   *)
(* the caller cancel.                                                      *)
(***************************************************************************)
\* the steps of the goroutine running Do
DoStep ==
    \/ BufferBody
    \/ LoopTest
    \/ SelectPoll
    \/ SelectWake
    \/ Send

TerminationNext ==
    \/ BufferBody
    \/ LoopTest
    \/ SelectPoll
    \/ SelectWake
    \/ Send
    \/ EitherRespond
    \/ EitherCancel
    \/ TimerFire

Fairness ==
    /\ WF_vars(DoStep)
    /\ WF_vars(EitherRespond)
    /\ WF_vars(TimerFire)

SpecTermination == EitherInitChain /\ [][TerminationNext]_vars /\ Fairness

\* C28: every call of RetryClient.Do eventually returns, for every maxRetries
\* and every retry policy, when each attempt returns and each delay ends.
C28_DoReturns == <>Returned

\* a call under the policy that always answers retry has returned after all
\* its attempts
C28_Witness ==
    /\ Returned
    /\ retryPolicy = "always"
    /\ maxRetries = MaxRetriesBound
    /\ Len(sent) = MaxRetriesBound + 1
    /\ Len(delays) = MaxRetriesBound

(***************************************************************************)
(* The default backoff over the attempts of a call, for every retry budget *)
(* up to the width of time.Duration.                                       *)
(***************************************************************************)
MaxBaseDelay == 3

\* the delays getRetryDelay computes before attempts 1 .. maxRetries of a
\* client without a custom policy, and CalculateBackoff(0, retryDelay) first
BackoffStep ==
    /\ pc = "backoff"
    /\ attempt <= maxRetries
    /\ delays' = Append(delays, CalculateBackoff(attempt, retryDelay))
    /\ attempt' = NextAttempt(attempt)
    /\ UNCHANGED outside
    /\ UNCHANGED <<config, body, ctxDone, pc, bodyBytes, lastErr, currentBody,
                   result, timerState, bodyReads, captured, sent, outcomes,
                   network, trace, policyCalls, cancelPhase>>

BackoffInit ==
    /\ maxRetries \in 1 .. DurationBits + 1
    /\ retryDelay \in 1 .. MaxBaseDelay
    /\ retryPolicy = "nil"
    /\ reqOk = TRUE
    /\ body = NoBody
    /\ ctxDone = FALSE
    /\ pc = "backoff"
    /\ attempt = 0
    /\ bodyBytes = NilBytes
    /\ lastErr = NoErr
    /\ currentBody = NoBody
    /\ timerFired = FALSE
    /\ woken = "none"
    /\ result = NoResult
    /\ bodyReads = 0
    /\ captured = <<>>
    /\ sent = <<>>
    /\ outcomes = <<>>
    /\ network = <<>>
    /\ delays = <<>>
    /\ trace = <<>>
    /\ policyCalls = <<>>
    /\ cancelPhase = "none"
    /\ OutsideIdle

BackoffNext == BackoffStep

SpecBackoff == BackoffInit /\ [][BackoffNext]_vars

\* C29: for baseDelay > 0 and k in 1 .. maxRetries, CalculateBackoff(k,
\* baseDelay), as the duration type wraps it, is positive and strictly
\* greater than CalculateBackoff(k - 1, baseDelay).
C29_BackoffAlwaysGrows ==
    \A k \in 1 .. Len(delays) - 1 :
        /\ delays[k + 1] > 0
        /\ delays[k + 1] > delays[k]

(***************************************************************************)
(* internal/builder/document_builder.go: one documentBuilder shared by     *)
(* NumAdders goroutines that each call AddTable once, and a goroutine that *)
(* calls Build, again and again.  AddTable's append is a read of           *)
(* b.doc.Tables followed by a store of the longer slice.                   *)
(***************************************************************************)
NumAdders == 3

\* the goroutines calling AddTable; goroutine p adds table p
Adders == 1 .. NumAdders
\* the goroutine calling Build
BuildCaller == 0
Goroutines == {BuildCaller} \cup Adders

CanLock_noMutex == TRUE

\* b.mu.Lock() returns only when no goroutine holds the mutex
CanLock == builderMu = Unlocked

\* the positions between b.mu.Lock() and the deferred b.mu.Unlock()
InCritical(p) == builderPc[p] \in {"locked", "read", "stored", "copied"}

\* AddTable, line 53: b.mu.Lock()
AddTableLock(p) ==
    /\ builderPc[p] = "idle"
    /\ CanLock
    /\ builderMu' = p
    /\ builderPc' = [builderPc EXCEPT ![p] = "locked"]
    /\ UNCHANGED <<builderDoc, builderLocal, built, builtAfter>>
    /\ UNCHANGED <<clients, readerVars>>

\* AddTable, line 55: the operand b.doc.Tables of append is read
AddTableRead(p) ==
    /\ builderPc[p] = "locked"
    /\ builderLocal' = [builderLocal EXCEPT ![p] = builderDoc.Tables]
    /\ builderPc' = [builderPc EXCEPT ![p] = "read"]
    /\ UNCHANGED <<builderMu, builderDoc, built, builtAfter>>
    /\ UNCHANGED <<clients, readerVars>>

\* AddTable, line 55: the result of append is stored in b.doc.Tables
AddTableStore(p) ==
    /\ builderPc[p] = "read"
    /\ builderDoc' = [builderDoc EXCEPT !.Tables = Append(builderLocal[p], p)]
    /\ builderPc' = [builderPc EXCEPT ![p] = "stored"]
    /\ UNCHANGED <<builderMu, builderLocal, built, builtAfter>>
    /\ UNCHANGED <<clients, readerVars>>

\* AddTable, lines 54 and 56: return b, and the deferred b.mu.Unlock()
AddTableUnlock(p) ==
    /\ builderPc[p] = "stored"
    /\ builderMu' = Unlocked
    /\ builderPc' = [builderPc EXCEPT ![p] = "returned"]
    /\ UNCHANGED <<builderDoc, builderLocal, built, builtAfter>>
    /\ UNCHANGED <<clients, readerVars>>

\* Build, line 80: b.mu.Lock(); the call is noted as following the AddTable
\* calls when each of them has returned
BuildLock ==
    /\ builderPc[BuildCaller] \in {"idle", "returned"}
    /\ CanLock
    /\ builderMu' = BuildCaller
    /\ builderPc' = [builderPc EXCEPT ![BuildCaller] = "locked"]
    /\ builtAfter' = \A p \in Adders : builderPc[p] = "returned"
    /\ UNCHANGED <<builderDoc, builderLocal, built>>
    /\ UNCHANGED <<clients, readerVars>>

\* Build, line 82: doc := *b.doc
BuildCopy ==
    /\ builderPc[BuildCaller] = "locked"
    /\ built' = builderDoc
    /\ builderPc' = [builderPc EXCEPT ![BuildCaller] = "copied"]
    /\ UNCHANGED <<builderMu, builderDoc, builderLocal, builtAfter>>
    /\ UNCHANGED <<clients, readerVars>>

\* Build, lines 81 and 83: return &doc, and the deferred b.mu.Unlock()
BuildUnlock ==
    /\ builderPc[BuildCaller] = "copied"
    /\ builderMu' = Unlocked
    /\ builderPc' = [builderPc EXCEPT ![BuildCaller] = "returned"]
    /\ UNCHANGED <<builderDoc, builderLocal, built, builtAfter>>
    /\ UNCHANGED <<clients, readerVars>>

\* NewDocumentBuilder, and the goroutines before their calls
BuilderInit ==
    /\ ClientsIdle
    /\ ReaderIdle
    /\ builderMu = Unlocked
    /\ builderDoc = [Tables |-> <<>>]
    /\ builderPc = [p \in Goroutines |-> "idle"]
    /\ builderLocal = [p \in Adders |-> <<>>]
    /\ built = [Tables |-> <<>>]
    /\ builtAfter = FALSE

BuilderNext ==
    \/ \E p \in Adders : AddTableLock(p)
    \/ \E p \in Adders : AddTableRead(p)
    \/ \E p \in Adders : AddTableStore(p)
    \/ \E p \in Adders : AddTableUnlock(p)
    \/ BuildLock
    \/ BuildCopy
    \/ BuildUnlock

SpecBuilder == BuilderInit /\ [][BuilderNext]_vars

\* Build has copied the document
BuildCopied == builderPc[BuildCaller] \in {"copied", "returned"}

\* the tables of a sequence
TablesOf(tables) == {tables[i] : i \in 1 .. Len(tables)}

\* C30: the mutations of documentBuilder exclude each other under its lock:
\* for every interleaving of the concurrent AddTable calls a following Build
\* returns exactly their tables, each once, and a concurrent Build sees only
\* whole mutations: the tables of the AddTable calls that have returned.
C30_MutationsAreExclusive ==
    /\ Cardinality({p \in Goroutines : InCritical(p)}) <= 1
    /\ (BuildCopied /\ builtAfter)
          => /\ Len(built.Tables) = NumAdders
             /\ TablesOf(built.Tables) = Adders
    /\ BuildCopied
          => /\ Cardinality(TablesOf(built.Tables)) = Len(built.Tables)
             /\ TablesOf(built.Tables) \subseteq {p \in Adders : builderPc[p] = "returned"}
             /\ built.Tables = SubSeq(builderDoc.Tables, 1, Len(built.Tables))
    /\ builderPc[BuildCaller] = "copied"
          => TablesOf(built.Tables) = {p \in Adders : builderPc[p] = "returned"}

\* a Build that followed the AddTable calls has returned their tables, in an
\* order other than that of the goroutines
C30_Witness ==
    /\ builderPc[BuildCaller] = "returned"
    /\ builtAfter
    /\ Len(built.Tables) = NumAdders
    /\ built.Tables[1] = NumAdders
====
